---- MODULE Spec2Model ----
(***************************************************************************)
(* Verification model of the collab-sphere signaling core:                 *)
(*   - the room relay              (src/signaling-server-deno.ts)          *)
(*   - the relay client            (src/webrtcService-backup.ts)           *)
(*   - the broadcast-channel client (src/unnamed/part_003)                 *)
(*   - the presence (PeerJS) client (src/webrtcService.ts)                 *)
(* Each component has its own variables, initial state and next-state      *)
(* relation; a component's specification leaves the others untouched.      *)
(***************************************************************************)
EXTENDS Integers, Sequences, FiniteSets, TLC

(***************************************************************************)
(* Generic helpers                                                         *)
(***************************************************************************)
Range(s) == {s[i] : i \in 1..Len(s)}

\* JavaScript `undefined` (a missing field of a parsed message).
Undef == "undefined"

\* JavaScript truthiness of an optional string field.
Truthy(x) == x # Undef

RECURSIVE SeqRemove(_, _)
SeqRemove(s, x) ==
  IF s = <<>> THEN <<>>
  ELSE IF Head(s) = x THEN SeqRemove(Tail(s), x)
  ELSE <<Head(s)>> \o SeqRemove(Tail(s), x)

(***************************************************************************)
(* RELAY  (src/signaling-server-deno.ts)                                   *)
(***************************************************************************)
\* Bounds of the relay model.
Conns == {"k1", "k2", "k3"}          \* relay-assigned client ids, one per connection
RoomIds == {"r1", "r2"}              \* room identifiers (URL path / join field)
MaxRelayMsgs == 3                    \* messages handled by the relay in one run
\* The URL path each connection is opened with.
r_scope == [c \in Conns |-> IF c = "k3" THEN "r2" ELSE "r1"]

RoomKeys == RoomIds \cup {Undef}     \* keys the rooms Map can hold
JoinNames == {"Ann"}
FwdTypes == {"offer", "ice-candidate"}

VARIABLES
  r_clients,   \* Map<string, Client>: registered id -> [roomId, name]
  r_rooms,     \* Map<string, Set<string>>: room key -> members in insertion order
  r_ws,        \* readyState of each connection's socket
  r_last,      \* the handler that ran last and the ws.send calls it made
  r_msgs       \* number of messages handled so far

relayVars == <<r_clients, r_rooms, r_ws, r_last, r_msgs>>

\* State of the broadcast-channel clients (src/unnamed/part_003).
VARIABLES
  bc_chan,     \* per client: "none" (not initialized), "open" (channel and interval live), "closed"
  bc_inbox,    \* per client: messages queued on its BroadcastChannel, oldest first
  bc_pcs,      \* per client: peerConnections map, remote id -> peer connection (or NoPc)
  bc_tasks,    \* per client: handler invocations suspended at an await
  bc_made,     \* per client: number of peer connections created so far
  bc_offers,   \* per client and remote: offers sent since the map entry for remote was made
  bc_offered,  \* pairs <<p, r>> such that p has ever sent an offer addressed to r
  bc_fails,    \* transport failures so far
  bc_env,      \* messages a scripted remote has posted, candidates put on the channel
  bc_cb,       \* per client: the callbacks given to initialize hold onParticipantJoined
  bc_joined    \* per client and remote: onParticipantJoined calls since the last
               \* onParticipantLeft for that remote: 0, 1, or 2 for more than one

bcVars == <<bc_chan, bc_inbox, bc_pcs, bc_tasks, bc_made, bc_offers, bc_offered, bc_fails, bc_env,
            bc_cb, bc_joined>>

\* State of the relay client (src/webrtcService-backup.ts).
VARIABLES
  rc_ws,          \* readyState of this.ws: "connecting", "open", "closing", "closed"
  rc_wsCount,     \* WebSockets created so far (the current one is number rc_wsCount)
  rc_closeCode,   \* close code a closing socket will report
  rc_retryCount,  \* this.retryCount
  rc_retryDelay,  \* this.retryDelay, in ms
  rc_timers,      \* reconnect timers scheduled and not yet fired
  rc_awaits,      \* sockets whose onopen handler is suspended at `await this.onReconnect()`
  rc_report,      \* last state passed to onConnectionStateChange
  rc_failed,      \* 'connection_failed' has been reported
  rc_delays,      \* delays of the timers scheduled since the last open, in order
  rc_abnormal,    \* abnormal closes since the last open
  rc_opens,       \* successful opens so far
  rc_userClosed,  \* close() has been called
  rc_note         \* what the last step passed to onConnectionStateChange, and whether it sent the join

rcVars == <<rc_ws, rc_wsCount, rc_closeCode, rc_retryCount, rc_retryDelay, rc_timers,
            rc_awaits, rc_report, rc_failed, rc_delays, rc_abnormal, rc_opens, rc_userClosed,
            rc_note>>

\* Peer sessions of the relay client (src/webrtcService-backup.ts).
VARIABLES
  rs_pcs,      \* this.peerConnections: remote id -> peer connection (or NoSess)
  rs_dcs,      \* this.dataChannels: remote id -> id of the connection the channel belongs to (0: no entry)
  rs_tasks,    \* handler invocations suspended at an await
  rs_made,     \* peer connections created so far
  rs_left,     \* onParticipantLeft calls for a remote since its current or last session was created
  rs_present,  \* remotes that are in the room as far as the relay has told this client
  rs_last,     \* the signaling handler step that ran last
  rs_msgs      \* signaling messages handled so far

rsVars == <<rs_pcs, rs_dcs, rs_tasks, rs_made, rs_left, rs_present, rs_last, rs_msgs>>

\* State of the presence-based client (src/webrtcService.ts) and of the
\* browser it runs in.
VARIABLES
  pj_now,         \* Date.now(), in ms
  pj_open,        \* the peer is open and the presence interval is running
  pj_due,         \* the presence interval has a tick to deliver
  pj_presence,    \* the room's presence record in localStorage: user id -> timestamp, Absent if none
  pj_known,       \* this.knownPeers
  pj_conns,       \* keys of this.connections
  pj_pending,     \* outgoing data connections created and not yet opened, per user
  pj_status,      \* each remote peer: "alive", "silent" (gone without leave), "left"
  pj_joined,      \* onParticipantJoined calls, per id
  pj_left,        \* onParticipantLeft calls, per id
  pj_pruned       \* users whose entry a local announcePresence found stale

pjVars == <<pj_now, pj_open, pj_due, pj_presence, pj_known, pj_conns, pj_pending,
            pj_status, pj_joined, pj_left, pj_pruned>>

\* The presence-based client's connection to the PeerJS server
\* (src/webrtcService.ts).
VARIABLES
  pr_server,      \* the PeerJS server: "up" or "down" (unreachable)
  pr_peer,        \* this.peer: "connecting", "open", "lost" (its socket has failed), "destroyed", "null"
  pr_disc,        \* this.peer.disconnected
  pr_state,       \* this.connectionState
  pr_t2,          \* pending setTimeout(() => this.reconnect(), 2000)
  pr_t5,          \* pending 5000 ms timers of reconnect()
  pr_attempts,    \* connection attempts made (new Peer, peer.reconnect()); counted up to MaxAttempts
  pr_failed,      \* 'connection_failed' has been the connection state
  pr_afterFailed, \* an attempt has been made after 'connection_failed'
  pr_intervals,   \* presence intervals created by setInterval and not cleared
  pr_handle,      \* this.presenceInterval names an interval that is not cleared
  pr_entry,       \* the presence record in localStorage holds this client's entry
  pr_closed       \* close() has been called

piVars == <<pr_intervals, pr_handle, pr_entry, pr_closed>>

prVars == <<pr_server, pr_peer, pr_disc, pr_state, pr_t2, pr_t5, pr_attempts, pr_failed,
            pr_afterFailed, piVars>>

\* The receive path of the control channels (src/webrtcService-backup.ts,
\* src/webrtcService.ts).
VARIABLES
  dc_calls,       \* per variant and application callback: times it has been invoked
  dc_last,        \* the message handled last: variant, type, callbacks invoked
  dc_n            \* messages handled so far

dcVars == <<dc_calls, dc_last, dc_n>>

\* What the actions of one component leave unchanged.
relayFrame == <<bcVars, rcVars, rsVars, pjVars, prVars, dcVars>>
bcFrame == <<relayVars, rcVars, rsVars, pjVars, prVars, dcVars>>
rcFrame == <<relayVars, bcVars, pjVars, prVars, dcVars>>
rsFrame == <<relayVars, bcVars, pjVars, prVars, dcVars>>
pjFrame == <<relayVars, bcVars, rcVars, rsVars, prVars, dcVars>>
prFrame == <<relayVars, bcVars, rcVars, rsVars, pjVars, dcVars>>
dcFrame == <<relayVars, bcVars, rcVars, rsVars, pjVars, prVars>>

NoOp == [op |-> "none", sender |-> Undef, type |-> Undef, roomId |-> Undef,
         targetId |-> Undef, sends |-> <<>>]

RelayInit ==
  /\ r_clients = <<>>
  /\ r_rooms = <<>>
  /\ r_ws = [c \in Conns |-> "none"]
  /\ r_last = NoOp
  /\ r_msgs = 0

\* Set.prototype.add on an insertion-ordered Set.
SetAdd(s, x) == IF x \in Range(s) THEN s ELSE Append(s, x)

\* Map.prototype.set / delete on a Map modelled as a function.
MapSet(m, k, v) == [x \in (DOMAIN m) \cup {k} |-> IF x = k THEN v ELSE m[x]]
MapDelete(m, k) == [x \in (DOMAIN m) \ {k} |-> m[x]]

\* broadcast(roomId, message, excludeId): the ws.send calls it makes, in
\* iteration order of the room's Set.
RECURSIVE BroadcastOver(_, _, _, _, _)
BroadcastOver(members, message, excludeId, clients, ws) ==
  IF members = <<>> THEN <<>>
  ELSE LET clientId == Head(members)
           rest == BroadcastOver(Tail(members), message, excludeId, clients, ws)
       IN IF Truthy(excludeId) /\ clientId = excludeId THEN rest
          ELSE IF clientId \in DOMAIN clients /\ ws[clientId] = "open"
               THEN <<[to |-> clientId, env |-> message]>> \o rest
               ELSE rest

broadcast(rooms, roomId, message, excludeId, clients, ws) ==
  IF roomId \notin DOMAIN rooms THEN <<>>
  ELSE BroadcastOver(rooms[roomId], message, excludeId, clients, ws)

Envelope(type, senderId, targetId, name) ==
  [type |-> type, senderId |-> senderId, targetId |-> targetId, name |-> name]

Ran(op, c, type, roomId, targetId, sends) ==
  [op |-> op, sender |-> c, type |-> type, roomId |-> roomId,
   targetId |-> targetId, sends |-> sends]

\* handleConnection: upgrade the request for path /urlRoom and register the client.
handleConnection(c) ==
  /\ UNCHANGED relayFrame
  /\ r_ws[c] = "none"
  /\ Truthy(r_scope[c])
  /\ r_ws' = [r_ws EXCEPT ![c] = "connecting"]
  /\ r_clients' = MapSet(r_clients, c, [roomId |-> r_scope[c], name |-> "Anonymous"])
  /\ r_last' = NoOp
  /\ UNCHANGED <<r_rooms, r_msgs>>

\* socket.onopen: the socket becomes OPEN; the handler only logs.
SocketOpen(c) ==
  /\ UNCHANGED relayFrame
  /\ r_ws[c] = "connecting"
  /\ r_ws' = [r_ws EXCEPT ![c] = "open"]
  /\ r_last' = NoOp
  /\ UNCHANGED <<r_clients, r_rooms, r_msgs>>

\* The socket stops being OPEN (peer went away); its close event is still queued.
SocketClosing(c) ==
  /\ UNCHANGED relayFrame
  /\ r_ws[c] \in {"connecting", "open"}
  /\ r_ws' = [r_ws EXCEPT ![c] = "closing"]
  /\ r_last' = NoOp
  /\ UNCHANGED <<r_clients, r_rooms, r_msgs>>

\* The removal shared by the __leave branch and socket.onclose.
LeaveRoom(c, rooms, clients, ws) ==
  LET roomId == clients[c].roomId IN
  IF Truthy(roomId) /\ roomId \in DOMAIN rooms
  THEN LET rooms1 == MapSet(rooms, roomId, SeqRemove(rooms[roomId], c))
           sends == broadcast(rooms1, roomId, Envelope("__leave", c, Undef, Undef),
                              Undef, clients, ws)
       IN [rooms |-> IF rooms1[roomId] = <<>> THEN MapDelete(rooms1, roomId) ELSE rooms1,
           sends |-> sends]
  ELSE [rooms |-> rooms, sends |-> <<>>]

\* socket.onclose
SocketOnClose(c) ==
  /\ UNCHANGED relayFrame
  /\ r_ws[c] = "closing"
  /\ r_ws' = [r_ws EXCEPT ![c] = "closed"]
  /\ IF c \in DOMAIN r_clients
     THEN LET res == LeaveRoom(c, r_rooms, r_clients, r_ws') IN
          /\ r_rooms' = res.rooms
          /\ r_clients' = MapDelete(r_clients, c)
          /\ r_last' = Ran("close", c, Undef, r_clients[c].roomId, Undef, res.sends)
     ELSE /\ UNCHANGED <<r_rooms, r_clients>>
          /\ r_last' = Ran("close", c, Undef, Undef, Undef, <<>>)
  /\ UNCHANGED r_msgs

\* handleMessage on a connection whose client is no longer registered (it sent
\* __leave): returns at once.
HandleUnregistered(c) ==
  /\ UNCHANGED relayFrame
  /\ r_ws[c] = "open"
  /\ r_msgs < MaxRelayMsgs
  /\ r_msgs' = r_msgs + 1
  /\ c \notin DOMAIN r_clients
  /\ r_last' = Ran("ignored", c, Undef, Undef, Undef, <<>>)
  /\ UNCHANGED <<r_clients, r_rooms, r_ws>>

\* The room Set after the __join branch has run (created if missing, id added).
JoinRooms(rooms, roomId, clientId) ==
  LET rooms1 == IF roomId \notin DOMAIN rooms THEN MapSet(rooms, roomId, <<>>) ELSE rooms
  IN MapSet(rooms1, roomId, SetAdd(rooms1[roomId], clientId))

\* handleMessage, type === '__join'
HandleJoin(c, roomId, name) ==
  /\ UNCHANGED relayFrame
  /\ r_ws[c] = "open"
  /\ r_msgs < MaxRelayMsgs
  /\ r_msgs' = r_msgs + 1
  /\ c \in DOMAIN r_clients
  /\ r_rooms' = JoinRooms(r_rooms, roomId, c)
  /\ r_clients' = MapSet(r_clients, c, [roomId |-> roomId, name |-> name])
  /\ r_last' = Ran("join", c, "__join", roomId, Undef,
                   broadcast(r_rooms', roomId, Envelope("__join", c, Undef, name),
                             c, r_clients', r_ws))
  /\ UNCHANGED r_ws

\* handleMessage, type === '__leave'
HandleLeave(c) ==
  /\ UNCHANGED relayFrame
  /\ r_ws[c] = "open"
  /\ r_msgs < MaxRelayMsgs
  /\ r_msgs' = r_msgs + 1
  /\ c \in DOMAIN r_clients
  /\ LET res == LeaveRoom(c, r_rooms, r_clients, r_ws) IN
       /\ r_rooms' = res.rooms
       /\ r_last' = Ran("leave", c, "__leave", r_clients[c].roomId, Undef, res.sends)
  /\ r_clients' = MapDelete(r_clients, c)
  /\ UNCHANGED r_ws

\* Variant of the forwarded object in which the client's remaining fields are
\* spread last, so that a senderId the client wrote survives.
ForwardMessage_RestLast(rest, type, clientId, targetId) ==
  LET own == Envelope(type, clientId, targetId, Undef)
  IN [own EXCEPT !.senderId = IF "senderId" \in DOMAIN rest THEN rest.senderId ELSE @]

\* const forwardMessage = { ...rest, type, senderId: clientId, targetId }: the
\* fields the client sent besides type, roomId, name and targetId come first
\* and the keys written after the spread replace them.
ForwardMessage(rest, type, clientId, targetId) ==
  LET spread == [type |-> Undef,
                 senderId |-> IF "senderId" \in DOMAIN rest THEN rest.senderId ELSE Undef,
                 targetId |-> Undef, name |-> Undef]
  IN [spread EXCEPT !.type = type, !.senderId = clientId, !.targetId = targetId]

\* Variant of the forwarding branch that falls back to the room broadcast when
\* the target cannot be reached.
ForwardSends_FallbackBroadcast(c, rest, type, targetId, rooms, clients, ws) ==
  LET roomId == clients[c].roomId
      forwardMessage == ForwardMessage(rest, type, c, targetId)
  IN IF ~Truthy(roomId) THEN <<>>
     ELSE IF Truthy(targetId) /\ targetId \in DOMAIN clients /\ ws[targetId] = "open"
          THEN <<[to |-> targetId, env |-> forwardMessage]>>
          ELSE broadcast(rooms, roomId, forwardMessage, c, clients, ws)

\* The ws.send calls of the forwarding branch (any other type).
ForwardSends(c, rest, type, targetId, rooms, clients, ws) ==
  LET roomId == clients[c].roomId
      forwardMessage == ForwardMessage(rest, type, c, targetId)
  IN IF ~Truthy(roomId) THEN <<>>
     ELSE IF Truthy(targetId)
          THEN IF targetId \in DOMAIN clients /\ ws[targetId] = "open"
               THEN <<[to |-> targetId, env |-> forwardMessage]>>
               ELSE <<>>
          ELSE broadcast(rooms, roomId, forwardMessage, c, clients, ws)

\* handleMessage, any other type; claimedSender is the senderId the client wrote.
HandleForward(c, type, targetId, claimedSender) ==
  /\ UNCHANGED relayFrame
  /\ r_ws[c] = "open"
  /\ r_msgs < MaxRelayMsgs
  /\ r_msgs' = r_msgs + 1
  /\ c \in DOMAIN r_clients
  /\ r_last' = Ran("forward", c, type, r_clients[c].roomId, targetId,
                   ForwardSends(c, [senderId |-> claimedSender], type, targetId,
                                r_rooms, r_clients, r_ws))
  /\ UNCHANGED <<r_clients, r_rooms, r_ws>>

RelayNext ==
  \/ \E c \in Conns : handleConnection(c)
  \/ \E c \in Conns : SocketOpen(c)
  \/ \E c \in Conns : SocketClosing(c)
  \/ \E c \in Conns : SocketOnClose(c)
  \/ \E c \in Conns : HandleUnregistered(c)
  \/ \E c \in Conns, roomId \in RoomKeys, name \in JoinNames : HandleJoin(c, roomId, name)
  \/ \E c \in Conns : HandleLeave(c)
  \/ \E c \in Conns :
       \E type \in FwdTypes, targetId \in Conns \cup {Undef}, claimedSender \in {c, "k1"} :
         HandleForward(c, type, targetId, claimedSender)

(***************************************************************************)
(* BROADCAST-CHANNEL CLIENT  (class WebRTCService, src/unnamed/part_003)   *)
(***************************************************************************)
\* Bounds of the broadcast-channel model.
MaxInbox == 2        \* presence ticks stop while a receiver has this many queued messages
MaxCands == 1        \* ICE candidates put on the channel in a run
MaxPcs == 2          \* peer connections one client creates in a run
MaxFail == 1         \* transport failures (connectionState failed/disconnected) in a run
MaxScript == 5       \* messages a scripted remote posts in a run

\* Client ids and their UTF-16 code units ("B2" < "a1" < "b2").
BCPeers == {"B2", "a1", "b2"}
CodeUnits == [B2 |-> <<66, 50>>, a1 |-> <<97, 49>>, b2 |-> <<98, 50>>]

\* JavaScript string comparison s > t: lexicographic on code units.
RECURSIVE LexGreater(_, _)
LexGreater(s, t) ==
  IF s = <<>> THEN FALSE
  ELSE IF t = <<>> THEN TRUE
  ELSE IF Head(s) # Head(t) THEN Head(s) > Head(t)
  ELSE LexGreater(Tail(s), Tail(t))

StrGreater(x, y) == LexGreater(CodeUnits[x], CodeUnits[y])


NoPc == [id |-> 0]

\* A fresh RTCPeerConnection: signalingState stable, no descriptions.
NewPc(id) ==
  [id |-> id, sig |-> "stable", local |-> FALSE, remote |-> FALSE,
   chained |-> <<>>,       \* addIceCandidate calls chained behind a pending setRemoteDescription
   applied |-> <<>>,       \* candidates added to the connection, in order
   recv |-> <<>>,          \* candidates handed to handleIceCandidate, in order
   cands |-> 0]            \* local candidates emitted through onicecandidate

BCInit ==
  /\ bc_chan = [p \in BCPeers |-> "none"]
  /\ bc_inbox = [p \in BCPeers |-> <<>>]
  /\ bc_pcs = [p \in BCPeers |-> [r \in BCPeers |-> NoPc]]
  /\ bc_tasks = [p \in BCPeers |-> {}]
  /\ bc_made = [p \in BCPeers |-> 0]
  /\ bc_offers = [p \in BCPeers |-> [r \in BCPeers |-> 0]]
  /\ bc_offered = {}
  /\ bc_fails = 0
  /\ bc_env = [msgs |-> 0, cands |-> 0]
  /\ bc_cb = [p \in BCPeers |-> FALSE]
  /\ bc_joined = [p \in BCPeers |-> [r \in BCPeers |-> 0]]

Msg(type, from, to, n) == [type |-> type, from |-> from, to |-> to, n |-> n]

\* sendSignalingMessage over the BroadcastChannel: every other open channel of
\* the room receives the message.
Post(inbox, chan, p, m) ==
  [q \in BCPeers |-> IF q # p /\ chan[q] = "open" THEN Append(inbox[q], m) ELSE inbox[q]]

HasPc(p, r) == bc_pcs[p][r] # NoPc

\* The peer connection a suspended handler holds is still the one in the map
\* (a connection is closed whenever it is taken out of the map).
Alive(p, t) == bc_pcs[p][t.remote].id = t.id

\* A setRemoteDescription on p's connection for r is still in the operations chain.
Setting(p, r) ==
  \E t \in bc_tasks[p] : t.remote = r /\ t.step = 1 /\ t.h \in {"offer", "answer"} /\ Alive(p, t)

\* IsInitiator without the ordering: any newly seen peer is offered to.
IsInitiator_Either(localId, peerId) == localId # peerId

\* handlePeerJoin's test for being the offering side.
IsInitiator(localId, peerId) == StrGreater(localId, peerId)

\* initialize(callbacks): keep the callbacks (cb: onParticipantJoined is among
\* them), open the channel, announce presence, start the 3 s interval.
BCInitialize(p, cb) ==
  /\ UNCHANGED bcFrame
  /\ bc_cb' = [bc_cb EXCEPT ![p] = cb]
  /\ UNCHANGED bc_joined
  /\ bc_chan[p] = "none"
  /\ bc_chan' = [bc_chan EXCEPT ![p] = "open"]
  /\ bc_inbox' = Post(bc_inbox, bc_chan', p, Msg("__join", p, Undef, 0))
  /\ UNCHANGED <<bc_pcs, bc_tasks, bc_made, bc_offers, bc_offered, bc_fails, bc_env>>

\* The presence interval fires: announcePresence.
BCAnnouncePresence(p) ==
  /\ UNCHANGED bcFrame
  /\ UNCHANGED <<bc_cb, bc_joined>>
  /\ bc_chan[p] = "open"
  /\ \A q \in BCPeers \ {p} : Len(bc_inbox[q]) < MaxInbox
  /\ bc_inbox' = Post(bc_inbox, bc_chan, p, Msg("__join", p, Undef, 0))
  /\ UNCHANGED <<bc_chan, bc_pcs, bc_tasks, bc_made, bc_offers, bc_offered, bc_fails, bc_env>>

\* The message at the head of p's queue, if its type is ty.
Incoming(p, ty) ==
  /\ bc_chan[p] = "open"
  /\ bc_inbox[p] # <<>>
  /\ Head(bc_inbox[p]).type = ty
  /\ Head(bc_inbox[p]).from # p

\* createPeerConnection: a new connection is put in the map.
WithNewPc(p, r) ==
  [bc_pcs EXCEPT ![p][r] = NewPc(bc_made[p] + 1)]

\* this.onParticipantJoined?.({id: peerId, ...}) at the end of handlePeerJoin.
Notified(joined, p, r) ==
  IF ~bc_cb[p] THEN joined
  ELSE [joined EXCEPT ![p][r] = IF @ = 0 THEN 1 ELSE 2]

\* handleSignalingMessage, case '__join': handlePeerJoin up to its first await
\* (the side that does not offer has none and notifies the application at once).
BCHandlePeerJoin(p) ==
  /\ UNCHANGED bcFrame
  /\ Incoming(p, "__join")
  /\ LET r == Head(bc_inbox[p]).from IN
     IF HasPc(p, r) \/ ~IsInitiator(p, r)
     THEN /\ bc_inbox' = [bc_inbox EXCEPT ![p] = Tail(@)]
          /\ bc_joined' = IF HasPc(p, r) THEN bc_joined ELSE Notified(bc_joined, p, r)
          /\ UNCHANGED bc_cb
          /\ UNCHANGED <<bc_chan, bc_pcs, bc_tasks, bc_made, bc_offers, bc_offered, bc_fails, bc_env>>
     ELSE /\ bc_made[p] < MaxPcs
          /\ UNCHANGED <<bc_cb, bc_joined>>
          /\ bc_inbox' = [bc_inbox EXCEPT ![p] = Tail(@)]
          /\ bc_pcs' = WithNewPc(p, r)
          /\ bc_made' = [bc_made EXCEPT ![p] = @ + 1]
          /\ bc_offers' = [bc_offers EXCEPT ![p][r] = 0]
          /\ bc_tasks' = [bc_tasks EXCEPT ![p] =
                            @ \cup {[h |-> "join", remote |-> r, id |-> bc_made[p] + 1, step |-> 1]}]
          /\ UNCHANGED <<bc_chan, bc_offered, bc_fails, bc_env>>

\* handlePeerJoin resumes after createOffer and setLocalDescription: the offer
\* is posted; on a closed connection the awaits reject and nothing is sent.
BCJoinResume(p) ==
  /\ UNCHANGED bcFrame
  /\ \E t \in bc_tasks[p] :
    /\ t.h = "join"
    /\ ~Setting(p, t.remote)
    /\ bc_tasks' = [bc_tasks EXCEPT ![p] = @ \ {t}]
    /\ bc_joined' = Notified(bc_joined, p, t.remote)
    /\ UNCHANGED bc_cb
    /\ IF Alive(p, t) /\ bc_pcs[p][t.remote].sig = "stable"
       THEN /\ bc_pcs' = [bc_pcs EXCEPT ![p][t.remote].sig = "have-local-offer",
                                        ![p][t.remote].local = TRUE]
            /\ bc_inbox' = Post(bc_inbox, bc_chan, p, Msg("offer", p, t.remote, 0))
            /\ bc_offers' = [bc_offers EXCEPT ![p][t.remote] = @ + 1]
            /\ bc_offered' = bc_offered \cup {<<p, t.remote>>}
       ELSE UNCHANGED <<bc_pcs, bc_inbox, bc_offers, bc_offered>>
    /\ UNCHANGED <<bc_chan, bc_made, bc_fails, bc_env>>

\* pc.addIceCandidate as handleIceCandidate calls it: chained behind a pending
\* setRemoteDescription, applied when a remote description is set, rejected
\* (and only logged by the catch) when there is none.
AddIceCandidate(pc, setting, n) ==
  IF setting THEN [pc EXCEPT !.recv = Append(@, n), !.chained = Append(@, n)]
  ELSE IF pc.remote THEN [pc EXCEPT !.recv = Append(@, n), !.applied = Append(@, n)]
  ELSE [pc EXCEPT !.recv = Append(@, n)]

\* RemoteSet without the description: only the signaling state moves.
RemoteSet_NoDescription(pc, sig, local) ==
  [pc EXCEPT !.sig = sig, !.local = local, !.chained = <<>>]

\* The connection once a setRemoteDescription has succeeded: the chained
\* addIceCandidate calls run behind it, in order.
RemoteSet(pc, sig, local) ==
  [pc EXCEPT !.sig = sig, !.remote = TRUE, !.local = local,
             !.applied = @ \o pc.chained, !.chained = <<>>]

\* The connection once a setRemoteDescription has been rejected: the chained
\* addIceCandidate calls run against the description that was there before.
RemoteRejected(pc) ==
  [pc EXCEPT !.applied = IF pc.remote THEN @ \o pc.chained ELSE @, !.chained = <<>>]

\* handleSignalingMessage, case 'offer': handleOffer up to its first await.
BCHandleOffer(p) ==
  /\ UNCHANGED bcFrame
  /\ UNCHANGED <<bc_cb, bc_joined>>
  /\ Incoming(p, "offer")
  /\ LET r == Head(bc_inbox[p]).from IN
       /\ HasPc(p, r) \/ bc_made[p] < MaxPcs
       /\ bc_inbox' = [bc_inbox EXCEPT ![p] = Tail(@)]
       /\ IF HasPc(p, r)
          THEN /\ bc_tasks' = [bc_tasks EXCEPT ![p] =
                     @ \cup {[h |-> "offer", remote |-> r, id |-> bc_pcs[p][r].id, step |-> 1]}]
               /\ UNCHANGED <<bc_pcs, bc_made, bc_offers>>
          ELSE /\ bc_pcs' = WithNewPc(p, r)
               /\ bc_made' = [bc_made EXCEPT ![p] = @ + 1]
               /\ bc_offers' = [bc_offers EXCEPT ![p][r] = 0]
               /\ bc_tasks' = [bc_tasks EXCEPT ![p] =
                     @ \cup {[h |-> "offer", remote |-> r, id |-> bc_made[p] + 1, step |-> 1]}]
  /\ UNCHANGED <<bc_chan, bc_offered, bc_fails, bc_env>>

\* handleOffer resumes after setRemoteDescription(offer).
BCOfferRemoteSet(p) ==
  /\ UNCHANGED bcFrame
  /\ UNCHANGED <<bc_cb, bc_joined>>
  /\ \E t \in bc_tasks[p] :
    /\ t.h = "offer" /\ t.step = 1
    /\ IF Alive(p, t)
       THEN /\ bc_pcs' = [bc_pcs EXCEPT ![p][t.remote] =
                            RemoteSet(@, "have-remote-offer",
                                      IF @.sig = "have-local-offer" THEN FALSE ELSE @.local)]
            /\ bc_tasks' = [bc_tasks EXCEPT ![p] = (@ \ {t}) \cup {[t EXCEPT !.step = 2]}]
       ELSE /\ bc_tasks' = [bc_tasks EXCEPT ![p] = @ \ {t}]
            /\ UNCHANGED bc_pcs
    /\ UNCHANGED <<bc_chan, bc_inbox, bc_made, bc_offers, bc_offered, bc_fails, bc_env>>

\* handleOffer resumes after createAnswer and setLocalDescription(answer): the
\* answer is posted.
BCOfferAnswerSent(p) ==
  /\ UNCHANGED bcFrame
  /\ UNCHANGED <<bc_cb, bc_joined>>
  /\ \E t \in bc_tasks[p] :
    /\ t.h = "offer" /\ t.step = 2
    /\ ~Setting(p, t.remote)
    /\ bc_tasks' = [bc_tasks EXCEPT ![p] = @ \ {t}]
    /\ IF Alive(p, t) /\ bc_pcs[p][t.remote].sig = "have-remote-offer"
       THEN /\ bc_pcs' = [bc_pcs EXCEPT ![p][t.remote].sig = "stable",
                                        ![p][t.remote].local = TRUE]
            /\ bc_inbox' = Post(bc_inbox, bc_chan, p, Msg("answer", p, t.remote, 0))
       ELSE UNCHANGED <<bc_pcs, bc_inbox>>
    /\ UNCHANGED <<bc_chan, bc_made, bc_offers, bc_offered, bc_fails, bc_env>>

\* handleSignalingMessage, case 'answer': handleAnswer up to its await.
BCHandleAnswer(p) ==
  /\ UNCHANGED bcFrame
  /\ UNCHANGED <<bc_cb, bc_joined>>
  /\ Incoming(p, "answer")
  /\ LET r == Head(bc_inbox[p]).from IN
       /\ bc_inbox' = [bc_inbox EXCEPT ![p] = Tail(@)]
       /\ bc_tasks' = IF HasPc(p, r)
                      THEN [bc_tasks EXCEPT ![p] =
                              @ \cup {[h |-> "answer", remote |-> r, id |-> bc_pcs[p][r].id, step |-> 1]}]
                      ELSE bc_tasks
  /\ UNCHANGED <<bc_chan, bc_pcs, bc_made, bc_offers, bc_offered, bc_fails, bc_env>>

\* handleAnswer resumes after setRemoteDescription(answer); the call is
\* rejected unless the connection has a local offer outstanding.
BCAnswerRemoteSet(p) ==
  /\ UNCHANGED bcFrame
  /\ UNCHANGED <<bc_cb, bc_joined>>
  /\ \E t \in bc_tasks[p] :
    /\ t.h = "answer" /\ t.step = 1
    /\ bc_tasks' = [bc_tasks EXCEPT ![p] = @ \ {t}]
    /\ IF Alive(p, t)
       THEN bc_pcs' = [bc_pcs EXCEPT ![p][t.remote] =
                         IF @.sig = "have-local-offer"
                         THEN RemoteSet(@, "stable", @.local)
                         ELSE RemoteRejected(@)]
       ELSE UNCHANGED bc_pcs
    /\ UNCHANGED <<bc_chan, bc_inbox, bc_made, bc_offers, bc_offered, bc_fails, bc_env>>

\* handleSignalingMessage, case 'ice-candidate': handleIceCandidate.
BCHandleIceCandidate(p) ==
  /\ UNCHANGED bcFrame
  /\ UNCHANGED <<bc_cb, bc_joined>>
  /\ Incoming(p, "ice-candidate")
  /\ LET r == Head(bc_inbox[p]).from
         n == Head(bc_inbox[p]).n
     IN /\ bc_inbox' = [bc_inbox EXCEPT ![p] = Tail(@)]
        /\ bc_pcs' = IF HasPc(p, r)
                     THEN [bc_pcs EXCEPT ![p][r] = AddIceCandidate(@, Setting(p, r), n)]
                     ELSE bc_pcs
  /\ UNCHANGED <<bc_chan, bc_tasks, bc_made, bc_offers, bc_offered, bc_fails, bc_env>>

\* pc.onicecandidate: a local candidate is sent to the remote.
BCOnIceCandidate(p) ==
  /\ UNCHANGED bcFrame
  /\ UNCHANGED <<bc_cb, bc_joined>>
  /\ \E r \in BCPeers :
    /\ HasPc(p, r)
    /\ bc_pcs[p][r].local
    /\ bc_env.cands < MaxCands
    /\ bc_env' = [bc_env EXCEPT !.cands = @ + 1]
    /\ bc_pcs' = [bc_pcs EXCEPT ![p][r].cands = @ + 1]
    /\ bc_inbox' = Post(bc_inbox, bc_chan, p, Msg("ice-candidate", p, r, bc_pcs[p][r].cands + 1))
    /\ UNCHANGED <<bc_chan, bc_tasks, bc_made, bc_offers, bc_offered, bc_fails>>

\* handlePeerLeave: close and forget the connection for peerId.
PeerLeft(pcs, p, r) == [pcs EXCEPT ![p][r] = NoPc]

\* handleSignalingMessage, case '__leave'.
BCHandlePeerLeave(p) ==
  /\ UNCHANGED bcFrame
  /\ Incoming(p, "__leave")
  /\ bc_inbox' = [bc_inbox EXCEPT ![p] = Tail(@)]
  /\ bc_pcs' = PeerLeft(bc_pcs, p, Head(bc_inbox[p]).from)
  /\ bc_joined' = [bc_joined EXCEPT ![p][Head(bc_inbox[p]).from] = 0]
  /\ UNCHANGED bc_cb
  /\ UNCHANGED <<bc_chan, bc_tasks, bc_made, bc_offers, bc_offered, bc_fails, bc_env>>

\* pc.onconnectionstatechange with state failed or disconnected.
BCConnectionFailed(p) ==
  /\ UNCHANGED bcFrame
  /\ \E r \in BCPeers :
    /\ HasPc(p, r)
    /\ bc_fails < MaxFail
    /\ bc_fails' = bc_fails + 1
    /\ bc_pcs' = PeerLeft(bc_pcs, p, r)
    /\ bc_joined' = [bc_joined EXCEPT ![p][r] = 0]
    /\ UNCHANGED bc_cb
    /\ UNCHANGED <<bc_chan, bc_inbox, bc_tasks, bc_made, bc_offers, bc_offered, bc_env>>

\* disconnect: announce the leave, stop the interval, close the channel and
\* every peer connection.
BCDisconnect(p) ==
  /\ UNCHANGED bcFrame
  /\ bc_chan[p] = "open"
  /\ bc_chan' = [bc_chan EXCEPT ![p] = "closed"]
  /\ bc_inbox' = [Post(bc_inbox, bc_chan, p, Msg("__leave", p, Undef, 0)) EXCEPT ![p] = <<>>]
  /\ bc_pcs' = [bc_pcs EXCEPT ![p] = [r \in BCPeers |-> NoPc]]
  /\ UNCHANGED <<bc_cb, bc_joined>>
  /\ UNCHANGED <<bc_tasks, bc_made, bc_offers, bc_offered, bc_fails, bc_env>>

BCStep(p) ==
  \/ BCAnnouncePresence(p)
  \/ BCHandlePeerJoin(p)
  \/ BCJoinResume(p)
  \/ BCHandleOffer(p)
  \/ BCOfferRemoteSet(p)
  \/ BCOfferAnswerSent(p)
  \/ BCHandleAnswer(p)
  \/ BCAnswerRemoteSet(p)
  \/ BCHandleIceCandidate(p)
  \/ BCOnIceCandidate(p)

\* The two clients of the pairwise scenarios.
Pair == {"a1", "b2"}

\* A remote that is not under this code's control (another page on the same
\* channel) posts a signaling message from id r to client p: any of join,
\* offer, answer, the next candidate, leave, in any order.
EnvPost(p, r) ==
  /\ UNCHANGED bcFrame
  /\ UNCHANGED <<bc_cb, bc_joined>>
  /\ bc_chan[p] = "open"
  /\ bc_chan[r] = "none"
  /\ bc_env.msgs < MaxScript
  /\ \/ \E ty \in {"__join", "offer", "answer", "__leave"} :
          /\ bc_inbox' = [bc_inbox EXCEPT ![p] =
                Append(@, Msg(ty, r, IF ty \in {"offer", "answer"} THEN p ELSE Undef, 0))]
          /\ bc_env' = [bc_env EXCEPT !.msgs = @ + 1]
     \/ /\ bc_env.cands < MaxCands
        /\ bc_inbox' = [bc_inbox EXCEPT ![p] =
                Append(@, Msg("ice-candidate", r, p, bc_env.cands + 1))]
        /\ bc_env' = [msgs |-> bc_env.msgs + 1, cands |-> bc_env.cands + 1]
  /\ UNCHANGED <<bc_chan, bc_pcs, bc_tasks, bc_made, bc_offers, bc_offered, bc_fails>>

\* One client and a scripted remote.
SessionNext ==
  \/ BCInitialize("b2", FALSE)
  \/ EnvPost("b2", "a1")
  \/ BCStep("b2")
  \/ BCHandlePeerLeave("b2")

\* Two clients that stay in the room, with a working transport.
LiveNext ==
  \/ \E p \in Pair : BCInitialize(p, FALSE)
  \/ \E p \in Pair : BCStep(p)

\* The shared channel hands client p a message that remote r addressed to a
\* third client x: sendSignalingMessage posts to every page on the channel.
EnvPostToOther(p, r, x) ==
  /\ UNCHANGED bcFrame
  /\ UNCHANGED <<bc_cb, bc_joined>>
  /\ bc_chan[p] = "open"
  /\ bc_chan[r] = "none"
  /\ x \notin {p, r}
  /\ bc_env.msgs < MaxScript
  /\ \E ty \in {"offer", "answer", "ice-candidate"} :
       bc_inbox' = [bc_inbox EXCEPT ![p] = Append(@, Msg(ty, r, x, 0))]
  /\ bc_env' = [bc_env EXCEPT !.msgs = @ + 1]
  /\ UNCHANGED <<bc_chan, bc_pcs, bc_tasks, bc_made, bc_offers, bc_offered, bc_fails>>

\* One client in a room with a scripted remote and a third client that the
\* remote negotiates with.
BystanderNext ==
  \/ BCInitialize("b2", FALSE)
  \/ EnvPost("b2", "a1")
  \/ EnvPostToOther("b2", "a1", "B2")
  \/ BCStep("b2")
  \/ BCHandlePeerLeave("b2")

BCNext ==
  \/ \E p \in Pair : BCInitialize(p, FALSE)
  \/ \E p \in Pair : BCStep(p)
  \/ \E p \in Pair : BCHandlePeerLeave(p)
  \/ \E p \in Pair : BCConnectionFailed(p)
  \/ \E p \in Pair : BCDisconnect(p)

\* Two clients whose applications registered onParticipantJoined, joining and
\* leaving the room.
JoinedNext ==
  \/ \E p \in Pair : BCInitialize(p, TRUE)
  \/ \E p \in Pair : BCStep(p)
  \/ \E p \in Pair : BCHandlePeerLeave(p)
  \/ \E p \in Pair : BCDisconnect(p)

(***************************************************************************)
(* RELAY CLIENT  (class WebRTCService, src/webrtcService-backup.ts)        *)
(***************************************************************************)
\* Bounds of the relay-client model.
MaxOpens == 2           \* successful opens of the relay connection in a run
MaxSigMsgs == 3         \* signaling messages the client handles in a run

maxRetries == 5
InitialRetryDelay == 1000
MaxRetryDelay == 30000
NormalClosure == 1000
AbnormalClosure == 1006

Min(a, b) == IF a < b THEN a ELSE b

\* The remote peers of the relay client's room.
RSRemotes == {"p2"}
NoSess == [id |-> 0]
NoNote == [report |-> Undef, join |-> FALSE]
Note(report, join) == [report |-> report, join |-> join]

\* ws.onclose: peerConnections.forEach(pc => pc.close()); peerConnections.clear()
\* The suspended handlers that can still act: a handler whose peer connection
\* has been closed or replaced resumes into its catch block (the awaited call
\* rejects on a closed connection) and changes nothing.
LiveTasks(tasks, pcs) ==
  {t \in tasks : pcs[t.remote].id = t.id /\ ~pcs[t.remote].closed}

ClearedSessions_KeepsMap(pcs) == [r \in RSRemotes |-> IF pcs[r] = NoSess THEN NoSess
                                                     ELSE [pcs[r] EXCEPT !.closed = TRUE]]

ClearedSessions(pcs) == [r \in RSRemotes |-> NoSess]

\* close(): peerConnections.forEach(pc => pc.close()); the map keeps its entries.
ClosedSessions(pcs) == [r \in RSRemotes |-> IF pcs[r] = NoSess THEN NoSess
                                            ELSE [pcs[r] EXCEPT !.closed = TRUE]]

\* The constructor has run: connect() reported 'connecting' and created the
\* first WebSocket.
RCInit ==
  /\ rc_ws = "connecting"
  /\ rc_wsCount = 1
  /\ rc_closeCode = NormalClosure
  /\ rc_retryCount = 0
  /\ rc_retryDelay = InitialRetryDelay
  /\ rc_timers = 0
  /\ rc_awaits = {}
  /\ rc_report = "connecting"
  /\ rc_failed = FALSE
  /\ rc_delays = <<>>
  /\ rc_abnormal = 0
  /\ rc_opens = 0
  /\ rc_userClosed = FALSE
  /\ rc_note = Note("connecting", FALSE)
  /\ rs_pcs = [r \in RSRemotes |-> NoSess]
  /\ rs_dcs = [r \in RSRemotes |-> 0]
  /\ rs_tasks = {}
  /\ rs_made = 0
  /\ rs_left = [r \in RSRemotes |-> 0]
  /\ rs_present = {}
  /\ rs_last = [h |-> "none", remote |-> Undef, bad |-> FALSE]
  /\ rs_msgs = 0

\* connect() gives up without a new WebSocket once retryCount has reached maxRetries.
RetriesExhausted_OffByOne(retryCount) == retryCount > maxRetries

RetriesExhausted(retryCount) == retryCount >= maxRetries

\* The delay ws.onclose schedules the next connect() with.
NextRetryDelay(retryDelay) == Min(retryDelay * 2, MaxRetryDelay)

\* ws.onopen up to the await: the retry state is reset; after a reconnect the
\* handler waits for onReconnect, otherwise it reports 'connected' and joins.
RCOnOpen ==
  /\ UNCHANGED rcFrame
  /\ rc_ws = "connecting"
  /\ rc_opens < MaxOpens
  /\ rc_opens' = rc_opens + 1
  /\ rc_ws' = "open"
  /\ rc_retryCount' = 0
  /\ rc_retryDelay' = InitialRetryDelay
  /\ rc_delays' = <<>>
  /\ rc_abnormal' = 0
  /\ IF rc_retryCount > 0
     THEN /\ rc_awaits' = rc_awaits \cup {rc_wsCount}
          /\ rc_note' = NoNote
          /\ UNCHANGED rc_report
     ELSE /\ rc_report' = "connected"
          /\ rc_note' = Note("connected", TRUE)
          /\ UNCHANGED rc_awaits
  /\ UNCHANGED <<rc_wsCount, rc_closeCode, rc_timers, rc_failed, rc_userClosed>>
  /\ UNCHANGED rsVars

\* ws.onopen resumes after onReconnect settled (resolved or rejected): it
\* reports 'connected' and sends the join if this.ws is open.
RCReconnectSettled ==
  /\ UNCHANGED rcFrame
  /\ \E w \in rc_awaits :
       /\ rc_awaits' = rc_awaits \ {w}
       /\ rc_report' = "connected"
       /\ rc_note' = Note("connected", rc_ws = "open")
  /\ UNCHANGED <<rc_ws, rc_wsCount, rc_closeCode, rc_retryCount, rc_retryDelay, rc_timers,
                 rc_failed, rc_delays, rc_abnormal, rc_opens, rc_userClosed>>
  /\ UNCHANGED rsVars

\* ws.onclose with the given close code.
OnCloseEffect(code) ==
  /\ rc_ws' = "closed"
  /\ rs_pcs' = ClearedSessions(rs_pcs)
  /\ rs_dcs' = [r \in RSRemotes |-> 0]
  /\ rs_present' = {}
  /\ rs_tasks' = LiveTasks(rs_tasks, rs_pcs')
  /\ rc_note' = NoNote
  /\ UNCHANGED <<rs_made, rs_left, rs_last, rs_msgs>>
  /\ IF code # NormalClosure
     THEN /\ rc_retryCount' = rc_retryCount + 1
          /\ rc_retryDelay' = NextRetryDelay(rc_retryDelay)
          /\ rc_timers' = rc_timers + 1
          /\ rc_delays' = Append(rc_delays, rc_retryDelay')
          /\ rc_abnormal' = rc_abnormal + 1
     ELSE UNCHANGED <<rc_retryCount, rc_retryDelay, rc_timers, rc_delays, rc_abnormal>>
  /\ UNCHANGED <<rc_wsCount, rc_closeCode, rc_awaits, rc_report, rc_failed, rc_opens, rc_userClosed>>

\* The relay or the network ends the connection: a connection attempt that
\* fails closes with 1006, an open connection with 1000 or 1006.
RCConnectionLost ==
  /\ UNCHANGED rcFrame
  /\ rc_ws \in {"connecting", "open"}
  /\ \E code \in {NormalClosure, AbnormalClosure} :
       /\ rc_ws = "connecting" => code = AbnormalClosure
       /\ OnCloseEffect(code)

\* The close event of a socket that close() has closed.
RCClosedByUser ==
  /\ UNCHANGED rcFrame
  /\ rc_ws = "closing"
  /\ OnCloseEffect(rc_closeCode)

\* A reconnect timer fires: connect().
RCConnect ==
  /\ UNCHANGED rcFrame
  /\ rc_timers > 0
  /\ rc_timers' = rc_timers - 1
  /\ UNCHANGED rsVars
  /\ IF rc_ws \in {"open", "connecting"}
     THEN /\ rc_note' = NoNote
          /\ UNCHANGED <<rc_ws, rc_wsCount, rc_report, rc_failed>>
     ELSE IF RetriesExhausted(rc_retryCount)
          THEN /\ rc_report' = "connection_failed"
               /\ rc_note' = Note("connection_failed", FALSE)
               /\ rc_failed' = TRUE
               /\ UNCHANGED <<rc_ws, rc_wsCount>>
          ELSE /\ rc_report' = IF rc_retryCount > 0 THEN "retrying" ELSE "connecting"
               /\ rc_note' = Note(rc_report', FALSE)
               /\ rc_ws' = "connecting"
               /\ rc_wsCount' = rc_wsCount + 1
               /\ UNCHANGED rc_failed
  /\ UNCHANGED <<rc_closeCode, rc_retryCount, rc_retryDelay, rc_awaits, rc_delays,
                 rc_abnormal, rc_opens, rc_userClosed>>

\* close(): leave, close every peer connection, exhaust the retry budget,
\* close the socket with code 1000 (a socket still connecting reports 1006 instead).
RCClose ==
  /\ UNCHANGED rcFrame
  /\ ~rc_userClosed
  /\ rs_pcs' = ClosedSessions(rs_pcs)
  /\ rs_tasks' = LiveTasks(rs_tasks, rs_pcs')
  /\ rc_note' = NoNote
  /\ UNCHANGED <<rs_dcs, rs_made, rs_left, rs_present, rs_last, rs_msgs>>
  /\ rc_userClosed' = TRUE
  /\ rc_retryCount' = maxRetries
  /\ IF rc_ws \in {"connecting", "open"}
     THEN /\ rc_closeCode' = IF rc_ws = "open" THEN NormalClosure ELSE AbnormalClosure
          /\ rc_ws' = "closing"
     ELSE UNCHANGED <<rc_ws, rc_closeCode>>
  /\ UNCHANGED <<rc_wsCount, rc_retryDelay, rc_timers, rc_awaits, rc_report, rc_failed,
                 rc_delays, rc_abnormal, rc_opens>>

RCNext ==
  \/ RCOnOpen
  \/ RCReconnectSettled
  \/ RCConnectionLost
  \/ RCClosedByUser
  \/ RCConnect
  \/ RCClose

\* createPeerConnection(remoteId): a connection already in the map is closed
\* and replaced.
CreatePeerConnection(pcs, remoteId, id) ==
  [pcs EXCEPT ![remoteId] = [id |-> id, closed |-> FALSE, remote |-> FALSE]]

\* The peer connection a suspended handler holds is the one in the map and open.
RSAlive(t) == rs_pcs[t.remote].id = t.id /\ ~rs_pcs[t.remote].closed

RSRan(h, remoteId, bad) == [h |-> h, remote |-> remoteId, bad |-> bad]

\* ws.onmessage delivers a message from remoteId addressed to this client.
RSReceives ==
  /\ rc_ws = "open"
  /\ rs_msgs < MaxSigMsgs
  /\ rs_msgs' = rs_msgs + 1

\* handleUserDisconnected(remoteId)
handleUserDisconnected(remoteId) ==
  /\ rs_pcs' = [rs_pcs EXCEPT ![remoteId] = NoSess]
  /\ rs_dcs' = [rs_dcs EXCEPT ![remoteId] = 0]
  /\ rs_left' = [rs_left EXCEPT ![remoteId] = @ + 1]

\* handleSignalingMessage, case '__join': onParticipantJoined, then call() up
\* to its first await.
RSHandleJoin(remoteId) ==
  /\ UNCHANGED <<rsFrame, rcVars>>
  /\ RSReceives
  /\ rs_made' = rs_made + 1
  /\ rs_pcs' = CreatePeerConnection(rs_pcs, remoteId, rs_made')
  /\ rs_dcs' = [rs_dcs EXCEPT ![remoteId] = rs_made']
  /\ rs_tasks' = LiveTasks(rs_tasks \cup {[h |-> "call", remote |-> remoteId, id |-> rs_made',
                                           bad |-> FALSE]}, rs_pcs')
  /\ rs_left' = [rs_left EXCEPT ![remoteId] = 0]
  /\ rs_present' = rs_present \cup {remoteId}
  /\ rs_last' = RSRan("join", remoteId, FALSE)

\* call() resumes after createOffer and setLocalDescription: the offer is
\* sent, or the rejection of a closed connection is caught and logged.
RSCallResume ==
  /\ UNCHANGED <<rsFrame, rcVars>>
  /\ \E t \in rs_tasks :
       /\ t.h = "call"
       /\ rs_tasks' = rs_tasks \ {t}
  /\ UNCHANGED <<rs_pcs, rs_dcs, rs_made, rs_left, rs_present, rs_last, rs_msgs>>

\* handleSignalingMessage, case '__leave'; the relay sends one leave for a
\* remote that is in the room.
RSHandleLeave(remoteId) ==
  /\ UNCHANGED <<rsFrame, rcVars>>
  /\ RSReceives
  /\ remoteId \in rs_present
  /\ rs_present' = rs_present \ {remoteId}
  /\ handleUserDisconnected(remoteId)
  /\ rs_tasks' = LiveTasks(rs_tasks, rs_pcs')
  /\ rs_last' = RSRan("leave", remoteId, FALSE)
  /\ UNCHANGED rs_made

\* handleSignalingMessage, case 'offer': handleOffer up to its first await;
\* bad says that the transport will reject the description.
RSHandleOffer(remoteId, bad) ==
  /\ UNCHANGED <<rsFrame, rcVars>>
  /\ RSReceives
  /\ rs_made' = rs_made + 1
  /\ rs_pcs' = CreatePeerConnection(rs_pcs, remoteId, rs_made')
  /\ rs_tasks' = LiveTasks(rs_tasks \cup {[h |-> "offer", remote |-> remoteId, id |-> rs_made',
                                           bad |-> bad]}, rs_pcs')
  /\ rs_left' = [rs_left EXCEPT ![remoteId] = 0]
  /\ rs_present' = rs_present \cup {remoteId}
  /\ rs_last' = RSRan("offer", remoteId, bad)
  /\ UNCHANGED rs_dcs

\* handleOffer and handleAnswer resume after setRemoteDescription: the
\* description is set (and handleOffer answers), or the rejection is caught.
RSDescriptionSettled ==
  /\ UNCHANGED <<rsFrame, rcVars>>
  /\ \E t \in rs_tasks :
       /\ t.h \in {"offer", "answer"}
       /\ rs_tasks' = rs_tasks \ {t}
       /\ rs_pcs' = IF ~t.bad /\ RSAlive(t)
                    THEN [rs_pcs EXCEPT ![t.remote].remote = TRUE]
                    ELSE rs_pcs
       /\ rs_last' = RSRan("settled", t.remote, t.bad)
  /\ UNCHANGED <<rs_dcs, rs_made, rs_left, rs_present, rs_msgs>>

\* handleSignalingMessage, case 'answer': handleAnswer up to its await.
RSHandleAnswer(remoteId, bad) ==
  /\ UNCHANGED <<rsFrame, rcVars>>
  /\ RSReceives
  /\ rs_tasks' = IF rs_pcs[remoteId] # NoSess
                 THEN rs_tasks \cup {[h |-> "answer", remote |-> remoteId,
                                      id |-> rs_pcs[remoteId].id, bad |-> bad]}
                 ELSE rs_tasks
  /\ rs_last' = RSRan("answer", remoteId, bad)
  /\ UNCHANGED <<rs_pcs, rs_dcs, rs_made, rs_left, rs_present>>

\* handleSignalingMessage, case 'ice-candidate': addIceCandidate resolves or
\* its rejection is caught; the maps are not touched.
RSHandleIceCandidate(remoteId, bad) ==
  /\ UNCHANGED <<rsFrame, rcVars>>
  /\ RSReceives
  /\ rs_last' = RSRan("ice-candidate", remoteId, bad)
  /\ UNCHANGED <<rs_pcs, rs_dcs, rs_tasks, rs_made, rs_left, rs_present>>

\* pc.ondatachannel: the remote's channel is filed under remoteId.
RSOnDataChannel(remoteId) ==
  /\ UNCHANGED <<rsFrame, rcVars>>
  /\ rs_pcs[remoteId] # NoSess
  /\ ~rs_pcs[remoteId].closed
  /\ rs_pcs[remoteId].remote
  /\ rs_dcs[remoteId] # rs_pcs[remoteId].id
  /\ rs_dcs' = [rs_dcs EXCEPT ![remoteId] = rs_pcs[remoteId].id]
  /\ rs_last' = RSRan("datachannel", remoteId, FALSE)
  /\ UNCHANGED <<rs_pcs, rs_tasks, rs_made, rs_left, rs_present, rs_msgs>>

\* pc.onconnectionstatechange with state failed or disconnected, on the
\* connection held for remoteId (a closed connection raises no event).
RSTransportLost(remoteId) ==
  /\ UNCHANGED <<rsFrame, rcVars>>
  /\ rs_pcs[remoteId] # NoSess
  /\ ~rs_pcs[remoteId].closed
  /\ handleUserDisconnected(remoteId)
  /\ rs_tasks' = LiveTasks(rs_tasks, rs_pcs')
  /\ rs_last' = RSRan("transport", remoteId, FALSE)
  /\ UNCHANGED <<rs_made, rs_present, rs_msgs>>

RSNext ==
  \/ RCOnOpen
  \/ RCConnectionLost
  \/ RCConnect
  \/ RCClose
  \/ RCClosedByUser
  \/ RSCallResume
  \/ RSDescriptionSettled
  \/ \E r \in RSRemotes :
       \/ RSHandleJoin(r)
       \/ RSHandleLeave(r)
       \/ RSOnDataChannel(r)
       \/ RSTransportLost(r)
       \/ \E bad \in BOOLEAN :
            \/ RSHandleOffer(r, bad)
            \/ RSHandleAnswer(r, bad)
            \/ RSHandleIceCandidate(r, bad)

(***************************************************************************)
(* PRESENCE-BASED CLIENT  (class WebRTCService, src/webrtcService.ts)      *)
(***************************************************************************)
\* Bounds of the presence model.
MaxTime == 15000        \* the clock stops here
MaxNotes == 2           \* joined / left notifications counted per id
MaxPending == 2         \* unopened outgoing connections per user

PresenceIntervalMs == 3000
StaleMs == 10000
Absent == 0 - 1

PJLocal == "u1"
Remotes == {"u2", "u3"}
PJUsers == {PJLocal} \cup Remotes
\* `${roomId}-${userId}`: the id a user's Peer registers with.
PeerIdOf == [u1 |-> "room-u1", u2 |-> "room-u2", u3 |-> "room-u3"]
NoteIds == PJUsers \cup {PeerIdOf[u] : u \in PJUsers}

PJInit ==
  /\ pj_now = 0
  /\ pj_open = FALSE
  /\ pj_due = FALSE
  /\ pj_presence = [u \in PJUsers |-> Absent]
  /\ pj_known = {}
  /\ pj_conns = {}
  /\ pj_pending = [u \in Remotes |-> 0]
  /\ pj_status = [u \in Remotes |-> "alive"]
  /\ pj_joined = [i \in NoteIds |-> 0]
  /\ pj_left = [i \in NoteIds |-> 0]
  /\ pj_pruned = {}

\* The entries announcePresence deletes from its copy of the record.
IsStale(presence, id, now) == presence[id] # Absent /\ now - presence[id] > StaleMs

\* The peers announcePresence connects to: still in its copy, not itself,
\* neither known nor connected.
ToConnect(presence, now) ==
  {id \in Remotes : /\ presence[id] # Absent
                    /\ ~IsStale(presence, id, now)
                    /\ id \notin pj_known
                    /\ id \notin pj_conns}

\* announcePresence(): write the own entry, drop stale entries from the
\* copy, connectToPeer() for every remaining peer not known yet.
announcePresence ==
  LET presence == [pj_presence EXCEPT ![PJLocal] = pj_now] IN
    /\ pj_presence' = presence
    /\ pj_pruned' = pj_pruned \cup {id \in PJUsers : IsStale(presence, id, pj_now)}
    /\ pj_pending' = [u \in Remotes |->
                        IF u \in ToConnect(presence, pj_now) /\ pj_pending[u] < MaxPending
                        THEN pj_pending[u] + 1 ELSE pj_pending[u]]
    /\ UNCHANGED <<pj_known, pj_conns, pj_joined, pj_left>>

\* handlePeerDisconnect(id)
handlePeerDisconnect(id) ==
  /\ pj_conns' = pj_conns \ {id}
  /\ pj_known' = pj_known \ {id}
  /\ pj_left' = [pj_left EXCEPT ![id] = @ + 1]

\* A data connection with userId opens (outgoing or incoming).
ConnOpened(userId) ==
  /\ pj_conns' = pj_conns \cup {userId}
  /\ pj_known' = pj_known \cup {userId}
  /\ pj_joined' = [pj_joined EXCEPT ![userId] = @ + 1]

\* peer.on('open'): announce and start the interval.
PJPeerOpen ==
  /\ UNCHANGED pjFrame
  /\ ~pj_open
  /\ pj_open' = TRUE
  /\ pj_due' = FALSE
  /\ announcePresence
  /\ UNCHANGED <<pj_now, pj_status>>

\* The presence interval fires.
PJTick ==
  /\ UNCHANGED pjFrame
  /\ pj_open /\ pj_due
  /\ pj_due' = FALSE
  /\ announcePresence
  /\ UNCHANGED <<pj_now, pj_open, pj_status>>

\* One interval period passes; a due tick is delivered first, and every
\* running remote client has announced in the period (its interval is the same).
PJAdvance ==
  /\ UNCHANGED pjFrame
  /\ pj_now < MaxTime
  /\ ~pj_due
  /\ \A r \in Remotes :
       (pj_status[r] = "alive" /\ pj_presence[r] # Absent) => pj_presence[r] = pj_now
  /\ pj_now' = pj_now + PresenceIntervalMs
  /\ pj_due' = pj_open
  /\ UNCHANGED <<pj_open, pj_presence, pj_known, pj_conns, pj_pending, pj_status,
                 pj_joined, pj_left, pj_pruned>>

\* conn.on('open') of a connection made by connectToPeer.
PJConnOpen(userId) ==
  /\ UNCHANGED pjFrame
  /\ pj_pending[userId] > 0
  /\ pj_status[userId] = "alive"
  /\ pj_joined[userId] < MaxNotes
  /\ pj_pending' = [pj_pending EXCEPT ![userId] = @ - 1]
  /\ ConnOpened(userId)
  /\ UNCHANGED <<pj_now, pj_open, pj_due, pj_presence, pj_status, pj_left, pj_pruned>>

\* handleIncomingConnection: a remote peer connected to us and its connection opened.
PJIncomingConnection(userId) ==
  /\ UNCHANGED pjFrame
  /\ pj_open
  /\ pj_status[userId] = "alive"
  /\ pj_presence[userId] # Absent
  /\ pj_joined[userId] < MaxNotes
  /\ ConnOpened(userId)
  /\ UNCHANGED <<pj_now, pj_open, pj_due, pj_presence, pj_pending, pj_status, pj_left, pj_pruned>>

\* conn.on('close'): the transport noticed the end of the data connection.
PJConnClose(userId) ==
  /\ UNCHANGED pjFrame
  /\ userId \in pj_conns
  /\ pj_left[userId] < MaxNotes
  /\ handlePeerDisconnect(userId)
  /\ UNCHANGED <<pj_now, pj_open, pj_due, pj_presence, pj_pending, pj_status, pj_joined, pj_pruned>>

\* peer.on('error') of type peer-unavailable: the id taken from the message
\* is the remote's peer id.
PJPeerUnavailable(userId) ==
  /\ UNCHANGED pjFrame
  /\ pj_pending[userId] > 0
  /\ pj_status[userId] # "alive"
  /\ pj_left[PeerIdOf[userId]] < MaxNotes
  /\ pj_pending' = [pj_pending EXCEPT ![userId] = @ - 1]
  /\ handlePeerDisconnect(PeerIdOf[userId])
  /\ UNCHANGED <<pj_now, pj_open, pj_due, pj_presence, pj_status, pj_joined, pj_pruned>>

\* A remote client's own announcePresence writes its entry.
RemoteAnnounce(r) ==
  /\ UNCHANGED pjFrame
  /\ pj_status[r] = "alive"
  /\ pj_presence[r] # pj_now
  /\ pj_presence' = [pj_presence EXCEPT ![r] = pj_now]
  /\ UNCHANGED <<pj_now, pj_open, pj_due, pj_known, pj_conns, pj_pending, pj_status,
                 pj_joined, pj_left, pj_pruned>>

\* A remote client stops abruptly: no close(), its entry stays.
RemoteSilent(r) ==
  /\ UNCHANGED pjFrame
  /\ pj_status[r] = "alive"
  /\ pj_presence[r] # Absent
  /\ pj_status' = [pj_status EXCEPT ![r] = "silent"]
  /\ UNCHANGED <<pj_now, pj_open, pj_due, pj_presence, pj_known, pj_conns, pj_pending,
                 pj_joined, pj_left, pj_pruned>>

\* A remote client's close(): it deletes its own entry.
RemoteClose(r) ==
  /\ UNCHANGED pjFrame
  /\ pj_status[r] = "alive"
  /\ pj_presence[r] # Absent
  /\ pj_status' = [pj_status EXCEPT ![r] = "left"]
  /\ pj_presence' = [pj_presence EXCEPT ![r] = Absent]
  /\ UNCHANGED <<pj_now, pj_open, pj_due, pj_known, pj_conns, pj_pending,
                 pj_joined, pj_left, pj_pruned>>

PJNext ==
  \/ PJPeerOpen
  \/ PJTick
  \/ PJAdvance
  \/ \E r \in Remotes :
       \/ PJConnOpen(r)
       \/ PJIncomingConnection(r)
       \/ PJConnClose(r)
       \/ PJPeerUnavailable(r)
       \/ RemoteAnnounce(r)
       \/ RemoteSilent(r)
       \/ RemoteClose(r)

(***************************************************************************)
(* PRESENCE-BASED CLIENT: connection to the PeerJS server                  *)
(* (src/webrtcService.ts)                                                  *)
(***************************************************************************)
MaxAttempts == 3        \* the attempt counter stops counting here
MaxTimers == 2          \* reconnect timers of one kind pending at a time
MaxIntervals == 2       \* presence intervals alive at a time

\* The constructor has run: initialize() created the first Peer.
PRInit ==
  /\ pr_server = "up"
  /\ pr_peer = "connecting"
  /\ pr_disc = FALSE
  /\ pr_state = "connecting"
  /\ pr_t2 = 0
  /\ pr_t5 = 0
  /\ pr_attempts = 1
  /\ pr_failed = FALSE
  /\ pr_afterFailed = FALSE
  /\ pr_intervals = 0
  /\ pr_handle = FALSE
  /\ pr_entry = FALSE
  /\ pr_closed = FALSE

\* updateConnectionState(state)
updateConnectionState(state) ==
  /\ pr_state' = state
  /\ pr_failed' = (pr_failed \/ state = "connection_failed")

\* new Peer(...) or peer.reconnect(): one more attempt to reach the server;
\* failedBefore says that 'connection_failed' has been the state before it.
PRAttempt(failedBefore) ==
  /\ pr_attempts' = Min(pr_attempts + 1, MaxAttempts)
  /\ pr_afterFailed' = (pr_afterFailed \/ failedBefore)

\* The server becomes unreachable and stays so.
PRServerLost ==
  /\ UNCHANGED prFrame
  /\ UNCHANGED piVars
  /\ pr_server = "up"
  /\ pr_server' = "down"
  /\ UNCHANGED <<pr_peer, pr_disc, pr_state, pr_t2, pr_t5, pr_attempts, pr_failed, pr_afterFailed>>

\* peer.on('open'): 'connected', announcePresence() writes the own entry, and
\* a new interval is created whose id replaces the one in presenceInterval.
PRPeerOpen ==
  /\ UNCHANGED prFrame
  /\ pr_server = "up"
  /\ pr_peer = "connecting"
  /\ pr_intervals < MaxIntervals
  /\ pr_peer' = "open"
  /\ pr_disc' = FALSE
  /\ updateConnectionState("connected")
  /\ pr_entry' = TRUE
  /\ pr_intervals' = pr_intervals + 1
  /\ pr_handle' = TRUE
  /\ UNCHANGED pr_closed
  /\ UNCHANGED <<pr_server, pr_t2, pr_t5, pr_attempts, pr_afterFailed>>

\* peer.on('error') for an error of the connection to the server: 'network'
\* and 'server-error' schedule reconnect(), any other type is terminal.
PRPeerError(type) ==
  /\ UNCHANGED prFrame
  /\ UNCHANGED piVars
  /\ pr_server = "down"
  /\ pr_peer \in {"connecting", "open"}
  /\ pr_peer' = "lost"
  /\ IF type \in {"network", "server-error"}
     THEN /\ pr_t2 < MaxTimers
          /\ updateConnectionState("retrying")
          /\ pr_t2' = pr_t2 + 1
     ELSE /\ updateConnectionState("connection_failed")
          /\ UNCHANGED pr_t2
  /\ UNCHANGED <<pr_server, pr_disc, pr_t5, pr_attempts, pr_afterFailed>>

\* peer.on('disconnected'): 'retrying' and peer.reconnect(). Whether
\* peer.disconnected still reads true while the attempt is under way is the
\* library's choice.
PRPeerDisconnected ==
  /\ UNCHANGED prFrame
  /\ UNCHANGED piVars
  /\ pr_peer = "lost"
  /\ updateConnectionState("retrying")
  /\ pr_peer' = "connecting"
  /\ pr_disc' \in BOOLEAN
  /\ PRAttempt(pr_failed)
  /\ UNCHANGED <<pr_server, pr_t2, pr_t5>>

\* peer.on('close'): the library has destroyed the peer after a fatal error.
PRPeerClose ==
  /\ UNCHANGED prFrame
  /\ UNCHANGED piVars
  /\ pr_peer = "lost"
  /\ pr_peer' = "destroyed"
  /\ pr_disc' = TRUE
  /\ updateConnectionState("connection_failed")
  /\ UNCHANGED <<pr_server, pr_t2, pr_t5, pr_attempts, pr_afterFailed>>

\* The 2000 ms timer fires: reconnect(). peer.reconnect() on a destroyed peer
\* throws (the callback ends there) or does nothing.
PRReconnect ==
  /\ UNCHANGED prFrame
  /\ UNCHANGED piVars
  /\ pr_t2 > 0
  /\ pr_t2' = pr_t2 - 1
  /\ IF ~pr_disc
     THEN UNCHANGED <<pr_peer, pr_disc, pr_t5, pr_attempts, pr_afterFailed>>
     ELSE IF pr_peer = "destroyed"
          THEN /\ \E throws \in BOOLEAN :
                    pr_t5' = IF throws \/ pr_t5 = MaxTimers THEN pr_t5 ELSE pr_t5 + 1
               /\ UNCHANGED <<pr_peer, pr_disc, pr_attempts, pr_afterFailed>>
          ELSE /\ pr_peer' = "connecting"
               /\ pr_disc' \in BOOLEAN
               /\ PRAttempt(pr_failed)
               /\ pr_t5' = IF pr_disc' /\ pr_t5 < MaxTimers THEN pr_t5 + 1 ELSE pr_t5
  /\ UNCHANGED <<pr_server, pr_state, pr_failed>>

\* The 5000 ms timer fires: a peer still disconnected is destroyed (its
\* 'close' handler reports 'connection_failed'), initialize() creates a new
\* Peer and onReconnect is called.
PRReinitialize ==
  /\ UNCHANGED prFrame
  /\ UNCHANGED piVars
  /\ pr_t5 > 0
  /\ pr_t5' = pr_t5 - 1
  /\ IF pr_disc
     THEN /\ updateConnectionState("connection_failed")
          /\ pr_peer' = "connecting"
          /\ pr_disc' = FALSE
          /\ PRAttempt(TRUE)
     ELSE UNCHANGED <<pr_peer, pr_disc, pr_state, pr_failed, pr_attempts, pr_afterFailed>>
  /\ UNCHANGED <<pr_server, pr_t2>>

\* The server becomes reachable again.
PRServerBack ==
  /\ UNCHANGED prFrame
  /\ pr_server = "down"
  /\ pr_server' = "up"
  /\ UNCHANGED <<pr_peer, pr_disc, pr_state, pr_t2, pr_t5, pr_attempts, pr_failed, pr_afterFailed>>
  /\ UNCHANGED piVars

\* A presence interval fires: announcePresence() writes the own entry.
PRPresenceTick ==
  /\ UNCHANGED prFrame
  /\ pr_intervals > 0
  /\ pr_entry' = TRUE
  /\ UNCHANGED <<pr_intervals, pr_handle, pr_closed>>
  /\ UNCHANGED <<pr_server, pr_peer, pr_disc, pr_state, pr_t2, pr_t5, pr_attempts, pr_failed,
                 pr_afterFailed>>

\* close(): clears the interval presenceInterval names, deletes the own
\* presence entry, destroys the peer and sets this.peer to null (the pending
\* timers then find no peer), and reports 'connection_failed'.
PRClose ==
  /\ UNCHANGED prFrame
  /\ ~pr_closed
  /\ pr_closed' = TRUE
  /\ pr_intervals' = IF pr_handle THEN pr_intervals - 1 ELSE pr_intervals
  /\ pr_handle' = FALSE
  /\ pr_entry' = FALSE
  /\ pr_peer' = "null"
  /\ pr_disc' = FALSE
  /\ updateConnectionState("connection_failed")
  /\ UNCHANGED <<pr_server, pr_t2, pr_t5, pr_attempts, pr_afterFailed>>

PRErrorTypes == {"network", "server-error", "socket-error"}

PRNext ==
  \/ PRServerLost
  \/ PRPeerOpen
  \/ \E type \in PRErrorTypes : PRPeerError(type)
  \/ PRPeerDisconnected
  \/ PRPeerClose
  \/ PRReconnect
  \/ PRReinitialize

(***************************************************************************)
(* CONTROL CHANNEL: the receive path                                       *)
(* (src/webrtcService-backup.ts, src/webrtcService.ts)                     *)
(***************************************************************************)
MaxData == 2            \* messages received on control channels in a run

DCVariants == {"relay", "peerjs"}

DCHandlers == {"onMessage", "onMessageUpdate", "onMessageDelete", "onReaction", "onCaption",
               "onNicknameChange"}

\* What the senders of a variant put on the wire for each kind of message;
\* the presence-based client sends a chat message without a type field.
WireType(variant, kind) ==
  IF variant = "relay"
  THEN CASE kind = "onMessage" -> "message"
         [] kind = "onMessageUpdate" -> "message-update"
         [] kind = "onMessageDelete" -> "message-delete"
         [] kind = "onReaction" -> "reaction"
         [] kind = "onCaption" -> "caption"
         [] kind = "onNicknameChange" -> "nickname-change"
  ELSE CASE kind = "onMessage" -> Undef
         [] kind = "onMessageUpdate" -> "__message_update"
         [] kind = "onMessageDelete" -> "__message_delete"
         [] kind = "onReaction" -> "reaction"
         [] kind = "onCaption" -> "caption"
         [] kind = "onNicknameChange" -> "__nickname_change"

\* The values a received message's type field may have.
DCTypes ==
  {WireType(v, k) : v \in DCVariants, k \in DCHandlers} \cup {"__handshake", "poll"}

\* handleDataChannelMessage of the relay client: the callbacks it invokes.
handleDataChannelMessage(type) ==
  CASE type = "reaction" -> {"onReaction"}
    [] type = "caption" -> {"onCaption"}
    [] type = "message" -> {"onMessage"}
    [] type = "message-update" -> {"onMessageUpdate"}
    [] type = "message-delete" -> {"onMessageDelete"}
    [] type = "nickname-change" -> {"onNicknameChange"}
    [] OTHER -> {}

\* handleDataMessage of the presence-based client: the callbacks it invokes.
handleDataMessage(type) ==
  IF type = "__handshake" THEN {}
  ELSE IF type = "reaction" THEN {"onReaction"}
  ELSE IF type = "caption" THEN {"onCaption"}
  ELSE IF type = "__message_update" THEN {"onMessageUpdate"}
  ELSE IF type = "__message_delete" THEN {"onMessageDelete"}
  ELSE IF type = "__nickname_change" THEN {"onNicknameChange"}
  ELSE {"onMessage"}

DCInit ==
  /\ dc_calls = [v \in DCVariants |-> [h \in DCHandlers |-> 0]]
  /\ dc_last = [variant |-> "none", type |-> Undef, invoked |-> {}]
  /\ dc_n = 0

\* A control channel of the given variant delivers a message.
DCReceive(variant, type, invoked) ==
  /\ dc_n < MaxData
  /\ dc_n' = dc_n + 1
  /\ dc_calls' = [dc_calls EXCEPT ![variant] =
                    [h \in DCHandlers |-> IF h \in invoked THEN @[h] + 1 ELSE @[h]]]
  /\ dc_last' = [variant |-> variant, type |-> type, invoked |-> invoked]

\* channel.onmessage of the relay client.
DCRelayMessage(type) ==
  /\ UNCHANGED dcFrame
  /\ DCReceive("relay", type, handleDataChannelMessage(type))

\* conn.on('data') of the presence-based client.
DCPeerData(type) ==
  /\ UNCHANGED dcFrame
  /\ DCReceive("peerjs", type, handleDataMessage(type))

DCNext ==
  \E type \in DCTypes :
    \/ DCRelayMessage(type)
    \/ DCPeerData(type)

(***************************************************************************)
(* Specifications                                                          *)
(***************************************************************************)
vars == <<relayVars, bcVars, rcVars, rsVars, pjVars, prVars, dcVars>>

Init == RelayInit /\ BCInit /\ RCInit /\ PJInit /\ PRInit /\ DCInit

\* The presence-based client with remote peers that announce, go silent or leave.
PJSpec == Init /\ [][PJNext]_vars

\* The relay client against a relay that may drop the connection at any time.
RCSpec == Init /\ [][RCNext]_vars

\* The relay client with the signaling messages and transport events of its peers.
RSSpec == Init /\ [][RSNext]_vars

\* The presence-based client's connection to a PeerJS server that becomes
\* unreachable.
PRSpec == Init /\ [][PRNext]_vars

\* The same, with every pending timer firing and every library event that is
\* due being delivered; the library is not obliged to destroy the peer.
PRLiveSpec ==
  /\ PRSpec
  /\ WF_vars(PRPeerDisconnected)
  /\ WF_vars(PRReconnect)
  /\ WF_vars(PRReinitialize)
  /\ WF_vars(\E type \in {"network", "server-error"} : PRPeerError(type))

\* The presence-based client with its presence interval, a server that comes
\* back, and close().
PresenceNext ==
  \/ PRNext
  \/ PRServerBack
  \/ PRPresenceTick
  \/ PRClose

PresenceSpec == Init /\ [][PresenceNext]_vars

\* Control channels of both variants receiving messages of every type.
DCSpec == Init /\ [][DCNext]_vars

\* The relay alone.
RelaySpec == Init /\ [][RelayNext]_vars

\* Broadcast-channel clients sharing one room.
BCSpec == Init /\ [][BCNext]_vars

\* The same clients with the participant-joined callback registered.
JoinedSpec == Init /\ [][JoinedNext]_vars

\* A broadcast-channel client that also receives what a remote addresses to
\* a third client of the room.
BystanderSpec == Init /\ [][BystanderNext]_vars

\* One broadcast-channel client fed by a scripted remote.
SessionSpec == Init /\ [][SessionNext]_vars

\* Every queued event is eventually handled: the event loop runs each pending
\* message handler and await continuation, and the presence interval keeps firing.
LiveFairness ==
  \A p \in Pair :
    /\ WF_vars(BCInitialize(p, FALSE))
    /\ WF_vars(BCAnnouncePresence(p))
    /\ WF_vars(BCHandlePeerJoin(p))
    /\ WF_vars(BCJoinResume(p))
    /\ WF_vars(BCHandleOffer(p))
    /\ WF_vars(BCOfferRemoteSet(p))
    /\ WF_vars(BCOfferAnswerSent(p))
    /\ WF_vars(BCHandleAnswer(p))
    /\ WF_vars(BCAnswerRemoteSet(p))
    /\ WF_vars(BCHandleIceCandidate(p))
    /\ WF_vars(BCOnIceCandidate(p))

\* Two clients join and stay, all events are eventually handled.
LiveSpec == Init /\ [][LiveNext]_vars /\ LiveFairness


(***************************************************************************)
(* Relay properties                                                        *)
(***************************************************************************)
Recipients(sends) == {sends[i].to : i \in 1..Len(sends)}
TimesSentTo(sends, m) == Cardinality({i \in 1..Len(sends) : sends[i].to = m})
Members(rooms, k) == IF k \in DOMAIN rooms THEN Range(rooms[k]) ELSE {}
IsOpenClient(m) == m \in DOMAIN r_clients /\ r_ws[m] = "open"

\* C1: when a client that has joined a room sends an envelope (not join, not
\* leave) without targetId, the envelope is delivered exactly once to every
\* other member of the client's room whose connection is open, and never to
\* the sender.  (The forward leaves the registry unchanged, so the members are
\* read from the state the handler ends in.)
C1_BroadcastReachesRoom ==
  (r_last.op = "forward" /\ ~Truthy(r_last.targetId)) =>
    LET c == r_last.sender
        k == r_clients[c].roomId
    IN c \in Members(r_rooms, k) =>
         /\ \A m \in Members(r_rooms, k) \ {c} :
              IsOpenClient(m) => TimesSentTo(r_last.sends, m) = 1
         /\ TimesSentTo(r_last.sends, c) = 0

\* C2: an envelope with a targetId reaches at most one connection, the one
\* registered under targetId, and only if that connection is open; otherwise
\* it is dropped (no ws.send at all, so nothing goes back to the sender and
\* nothing is kept for later), and rooms and client registry are unchanged.
C2_TargetedDelivery ==
  [][ (r_last'.op = "forward" /\ Truthy(r_last'.targetId)) =>
        LET t == r_last'.targetId
            sends == r_last'.sends
        IN /\ Len(sends) <= 1
           /\ Recipients(sends) \subseteq {t}
           /\ (sends # <<>>) => (t \in DOMAIN r_clients /\ r_ws[t] = "open")
           /\ (t \notin DOMAIN r_clients \/ r_ws[t] # "open") => sends = <<>>
           /\ r_clients' = r_clients
           /\ r_rooms' = r_rooms
           /\ r_ws' = r_ws ]_vars

\* Witness of C2: a targeted envelope was dropped because its target, though
\* registered, was not open, while the sender's room had other open members.
C2_Witness ==
  /\ r_last.op = "forward" /\ Truthy(r_last.targetId)
  /\ Truthy(r_last.roomId)
  /\ r_last.targetId \in DOMAIN r_clients
  /\ r_ws[r_last.targetId] # "open"
  /\ r_last.sends = <<>>
  /\ \E m \in Members(r_rooms, r_last.roomId) \ {r_last.sender} : IsOpenClient(m)

\* C9: after a join on a connection scoped to room r, the client is a member
\* of r and the join envelope went to exactly the clients that were members of
\* r before the join, never to the joining client.
C9_JoinScopedRoom ==
  [][ (r_last'.op = "join") =>
        LET c == r_last'.sender
            r == r_scope[c]
        IN /\ c \in Members(r_rooms', r)
           /\ Recipients(r_last'.sends) = Members(r_rooms, r) \ {c}
           /\ \A i \in 1..Len(r_last'.sends) :
                r_last'.sends[i].env.type = "__join" /\ r_last'.sends[i].env.senderId = c ]_vars

\* C10: a join repeated by a client that is already a member of the room, with
\* the same room and name, changes nothing and sends nothing.
C10_JoinIdempotent ==
  [][ (/\ r_last'.op = "join"
       /\ r_last'.sender \in DOMAIN r_clients
       /\ r_clients[r_last'.sender] = r_clients'[r_last'.sender]
       /\ r_last'.sender \in Members(r_rooms, r_last'.roomId)) =>
        /\ r_rooms' = r_rooms
        /\ r_clients' = r_clients
        /\ r_last'.sends = <<>> ]_vars

\* C11: when a registered client leaves, by a leave message or by its
\* connection closing, it is gone from the registry and from the member set
\* of the room it was recorded in, and no room is left with an empty member set.
C11_LeaveRemovesMember ==
  [][ (r_last'.op \in {"leave", "close"} /\ r_last'.sender \in DOMAIN r_clients) =>
        LET c == r_last'.sender IN
          /\ c \notin DOMAIN r_clients'
          /\ \A k \in DOMAIN r_rooms :
               (k = r_clients[c].roomId /\ c \in Range(r_rooms[k])) => c \notin Members(r_rooms', k)
          /\ \A k \in DOMAIN r_rooms' : r_rooms'[k] # <<>> ]_vars

\* C12: every id in a room's member set is a registered client whose recorded
\* room is that room.
C12_MembershipConsistent ==
  \A k \in DOMAIN r_rooms :
    \A m \in Range(r_rooms[k]) :
      m \in DOMAIN r_clients /\ r_clients[m].roomId = k

\* C13: every envelope the relay delivers goes to a client whose connection is
\* scoped to the same room identifier as the sending client's connection.
C13_RoomScoped ==
  \A i \in 1..Len(r_last.sends) :
    r_scope[r_last.sends[i].to] = r_scope[r_last.sender]

(***************************************************************************)
(* Broadcast-channel client properties                                     *)
(***************************************************************************)
Connected(p, r) == HasPc(p, r) /\ bc_pcs[p][r].local /\ bc_pcs[p][r].remote

\* C3: between two distinct peers only the one whose id is strictly greater
\* under string comparison ever sends an offer to the other, it sends at most
\* one offer per session with that peer, and the two never both send an offer
\* to each other.
C3_SingleInitiator ==
  /\ \A pr \in bc_offered : LexGreater(CodeUnits[pr[1]], CodeUnits[pr[2]])
  /\ \A p \in BCPeers, r \in BCPeers : bc_offers[p][r] <= 1
  /\ \A p \in BCPeers, r \in BCPeers : ~(<<p, r>> \in bc_offered /\ <<r, p>> \in bc_offered)

\* Witness of C3: b2 has sent its offer to a1, still holds that session, and a
\* further periodic join announcement of a1 is waiting in b2's queue, while a1
\* is about to handle the offer.
C3_Witness ==
  /\ <<"b2", "a1">> \in bc_offered
  /\ bc_offers["b2"]["a1"] = 1
  /\ HasPc("b2", "a1")
  /\ bc_inbox["b2"] # <<>> /\ Head(bc_inbox["b2"]).type = "__join"
  /\ bc_chan["a1"] = "open" /\ bc_inbox["a1"] # <<>> /\ Head(bc_inbox["a1"]).type = "offer"

\* C4: a candidate received from R before the session's remote description is
\* set is kept and, once the answer (or offer) of R has been processed, every
\* candidate received in the session has been applied, in arrival order.
C4_CandidatesNeverLost ==
  \A p \in BCPeers, r \in BCPeers :
    HasPc(p, r) =>
      /\ (bc_pcs[p][r].remote /\ ~Setting(p, r)) => bc_pcs[p][r].applied = bc_pcs[p][r].recv
      /\ ~bc_pcs[p][r].remote => bc_pcs[p][r].chained = bc_pcs[p][r].recv

C5_TerminalAfterMaxRetries ==
  /\ []((rc_abnormal >= 5 /\ rc_timers = 0) => rc_failed)
  /\ [][rc_failed => (rc_wsCount' = rc_wsCount /\ rc_timers' <= rc_timers /\ rc_ws' = rc_ws)]_vars

\* Witness of C5: five abnormal closes in a row, the last timer has fired and
\* the failure has been reported, without close() having been called.
C5_Witness ==
  /\ rc_abnormal = 5
  /\ rc_timers = 0
  /\ rc_failed
  /\ rc_opens = 1
  /\ ~rc_userClosed

\* C6: while the relay connection keeps closing abnormally, the delays of the
\* successive reconnect timers are 1 s, 2 s, 4 s, 8 s, 16 s.
C6_BackoffSchedule ==
  \A i \in 1..Len(rc_delays) :
    i <= 5 /\ rc_delays[i] = <<1000, 2000, 4000, 8000, 16000>>[i]

(***************************************************************************)
(* Presence-based client properties                                        *)
(***************************************************************************)
\* C7: once the local client has seen the entry of a joined peer go stale,
\* and that peer went away without leaving, participant-left has been raised
\* for that peer exactly once.
C7_StaleLeaveOnce ==
  \A r \in Remotes :
    (r \in pj_pruned /\ pj_status[r] = "silent" /\ pj_joined[r] > 0) => pj_left[r] = 1

\* C15: an open that follows an abnormal close invokes onReconnect, and an
\* open that follows none does not; 'connected' is reported and the join is
\* sent only when the onReconnect call of the current connection is not
\* pending any more.
C15_ReconnectCallbackFirst ==
  [][ /\ (rc_opens' # rc_opens) =>
           /\ (rc_abnormal > 0) <=> (rc_wsCount \in rc_awaits')
           /\ (rc_abnormal > 0) => rc_note' = NoNote
      /\ (rc_note'.report = "connected" \/ rc_note'.join) => rc_wsCount \notin rc_awaits'
    ]_vars

\* C17: once close() has returned, no reconnect timer is pending.
C17_NoTimerAfterClose ==
  rc_userClosed => rc_timers = 0

\* C14: for each remote, participant-left is raised exactly once per session:
\* after a leave envelope or a transport state change of the remote's session
\* the session has been notified once, and never more than once, whatever the
\* order of the two.
C14_LeftOncePerSession ==
  /\ \A r \in RSRemotes : rs_left[r] <= 1
  /\ rs_last.h \in {"leave", "transport"} => rs_left[rs_last.remote] = 1

\* C20: handling an offer, answer or candidate that the transport rejects
\* leaves the sessions and the control channels as they were.
C20_MalformedDiscarded ==
  [][ (rs_msgs' # rs_msgs /\ rs_last'.bad) => (rs_pcs' = rs_pcs /\ rs_dcs' = rs_dcs) ]_vars

NoSessions == \A r \in RSRemotes : rs_pcs[r] = NoSess /\ rs_dcs[r] = 0

\* C16: while the relay connection is closed the client holds no session and
\* no control channel, and it holds none when connect() creates the next
\* WebSocket.
C16_NoSessionAtNewAttempt ==
  [][ /\ rc_ws' = "closed" => NoSessions'
      /\ rc_wsCount' > rc_wsCount => (NoSessions /\ NoSessions') ]_vars

\* A second connection attempt has started after a close that found a session
\* which no leave and no transport change had ended.
C16_Witness ==
  /\ rc_wsCount = 2
  /\ rc_ws = "connecting"
  /\ \E r \in RSRemotes : rs_made > 0 /\ rs_left[r] = 0

\* C18: reconnection is bounded. No attempt is made after 'connection_failed'
\* has been reported, and when the server stays unreachable the client
\* eventually reports 'connection_failed'.
C18_BoundedReconnection ==
  /\ [](~pr_afterFailed)
  /\ <>[](pr_server = "down") => <>(pr_state = "connection_failed")

\* The message kind a type denotes on the wire of a variant, if any.
DCKinds(variant, type) == {k \in DCHandlers : WireType(variant, k) = type}

\* C19: a received message is dispatched to exactly the callback registered
\* for its type, and a message whose type is none of the variant's recognised
\* ones invokes no callback.
C19_DispatchToOneHandler ==
  dc_last.variant \in DCVariants =>
    dc_last.invoked = DCKinds(dc_last.variant, dc_last.type)

\* The step is the end of a handler that had a description or candidate from
\* r rejected: handleIceCandidate, or handleOffer / handleAnswer resuming.
RSRejected(r) ==
  /\ rs_last'.remote = r
  /\ rs_last'.bad
  /\ \/ rs_msgs' # rs_msgs /\ rs_last'.h = "ice-candidate"
     \/ rs_msgs' = rs_msgs /\ rs_last'.h = "settled" /\ rs_tasks' # rs_tasks
                           /\ rc_ws' = rc_ws /\ rc_userClosed' = rc_userClosed

\* C21: when a description or candidate from remote r is rejected, the
\* session held for r is closed and removed and participant-left is raised
\* for r.
C21_RejectedEndsSession ==
  [][ \A r \in RSRemotes :
        (RSRejected(r) /\ rs_pcs[r] # NoSess) =>
            (rs_pcs'[r] = NoSess /\ rs_left'[r] = rs_left[r] + 1) ]_vars

\* C22: a join from a remote for which a session is held changes neither the
\* sessions nor the control channels and starts no offer.
C22_JoinIdempotent ==
  [][ (rs_msgs' # rs_msgs /\ rs_last'.h = "join" /\ rs_pcs[rs_last'.remote] # NoSess) =>
        (rs_pcs' = rs_pcs /\ rs_dcs' = rs_dcs /\ rs_tasks' = rs_tasks) ]_vars

\* C23: at most one data connection is open between this client and a remote
\* peer (a connection opens only when none with that peer is open), and at
\* most one connection attempt to a peer is pending.
C23_OneConnectionPerPair ==
  [][ \A u \in Remotes :
        /\ pj_joined'[u] > pj_joined[u] => u \notin pj_conns
        /\ pj_pending'[u] <= 1 ]_vars

\* The localId the application gave the relay client behind each connection;
\* the relay draws its own id for the connection and never sends it to the
\* client.
RCLocalId == [c \in Conns |-> IF c = "k1" THEN "u1" ELSE IF c = "k2" THEN "u2" ELSE "u3"]

\* handleSignalingMessage of the relay client: the envelope passes the sender
\* and address filters.
RCAccepts(localId, env) ==
  /\ Truthy(env.senderId)
  /\ env.senderId # localId
  /\ ~(Truthy(env.targetId) /\ env.targetId # localId)

\* C24: an envelope that a client addresses to another member of its room,
\* under the id the relay stamped on that member's envelopes, is delivered to
\* that member and passes the member's address filter.
C24_TargetAccepts ==
  [][ ( /\ r_msgs' # r_msgs
        /\ r_last'.op = "forward"
        /\ Truthy(r_last'.targetId)
        /\ r_last'.targetId # r_last'.sender
        /\ IsOpenClient(r_last'.targetId)
        /\ \E k \in DOMAIN r_rooms : {r_last'.sender, r_last'.targetId} \subseteq Range(r_rooms[k]) )
      => \E i \in 1..Len(r_last'.sends) :
            /\ r_last'.sends[i].to = r_last'.targetId
            /\ RCAccepts(RCLocalId[r_last'.targetId], r_last'.sends[i].env) ]_vars

\* C25: a client that takes from the channel an offer, answer or candidate
\* addressed to another client leaves its own sessions alone and starts no
\* handler for it (so it sends no answer).
C25_AddressedOnly ==
  [][ \A p \in BCPeers :
        ( /\ bc_chan[p] = "open" /\ bc_chan'[p] = "open"
          /\ bc_inbox[p] # <<>>
          /\ bc_inbox'[p] = Tail(bc_inbox[p])
          /\ Head(bc_inbox[p]).type \in {"offer", "answer", "ice-candidate"}
          /\ Head(bc_inbox[p]).to # p )
        => (bc_pcs'[p] = bc_pcs[p] /\ bc_tasks'[p] = bc_tasks[p]) ]_vars

\* C26: every envelope the relay delivers (join notification, leave
\* notification or forwarded message) carries as senderId the relay-assigned
\* id of the connection whose message or close produced it, whatever
\* senderId that client wrote; no delivered envelope bears another id.
C26_SenderIsRelayId ==
  \A i \in 1..Len(r_last.sends) : r_last.sends[i].env.senderId = r_last.sender

\* A forwarded message has been delivered to another connection.
C26_Witness ==
  /\ r_last.op = "forward"
  /\ r_last.sends # <<>>
  /\ r_last.sends[1].to # r_last.sender


\* A handler of connection c has broadcast leave envelopes in this step.
LeaveSent(c) ==
  /\ r_msgs' # r_msgs \/ r_ws' # r_ws
  /\ r_last'.sender = c
  /\ r_last'.op \in {"leave", "close"}
  /\ r_last'.sends # <<>>

\* C27: leave envelopes correspond one to one to ended memberships: a leave
\* envelope with a connection's id is broadcast to a room only while that
\* connection is still registered (so at most once, also when an explicit
\* leave is followed by the socket closing), and only if that connection had
\* joined that room.
C27_LeaveEndsMembership ==
  [][ \A c \in Conns :
        LeaveSent(c) =>
          /\ c \in DOMAIN r_clients
          /\ c \in Members(r_rooms, r_clients[c].roomId) ]_vars


\* C28: whenever the relay client reports 'connected', its relay connection is
\* open at that moment; a connection that closed while onReconnect was
\* awaited in the open handler is not reported 'connected' afterwards.
C28_ConnectedMeansOpen ==
  rc_note.report = "connected" => rc_ws = "open"


\* C29: at most one presence interval is active at any time, across
\* disconnects, reconnects and re-initializations; none is active after
\* close(), and no presence entry of the client is written after close().
C29_OnePresenceInterval ==
  /\ [](pr_intervals <= 1)
  /\ [](pr_closed => pr_intervals = 0)
  /\ [][pr_closed => ~(pr_entry' /\ ~pr_entry)]_vars


\* C30: participant-joined for a remote peer is raised at most once between
\* the remote's arrival and its leave, however many periodic join
\* announcements are received and whichever side offers.
C30_JoinedOnce ==
  \A p \in BCPeers : \A r \in BCPeers : bc_joined[p][r] <= 1

====
